---- MODULE Spec2Model ----
(***************************************************************************)
(* VoxAurora: the text-repair engine (whisper_integration.rs), the         *)
(* dictionary membership checks (dawg_loader.rs) and the phrase matcher    *)
(* (bert.rs).                                                              *)
(*                                                                         *)
(* A string is a sequence of characters; a character is a one-element      *)
(* name ("a", " ", "egrave" for U+00E8, "rsquo" for U+2019, "filig" for    *)
(* U+FB01).  Offsets are byte offsets into the UTF-8 encoding, as in the   *)
(* source; Utf8Len gives the encoded width of each character.              *)
(* Scores are fixed-point: plausibility in thousandths (0..1000), merge    *)
(* scores and their thresholds in ten-thousandths (0..10000), cosine       *)
(* similarities in thousandths (-1000..1000).                              *)
(***************************************************************************)
EXTENDS Integers, Sequences, FiniteSets, TLC

VARIABLES
    text,           \* merge_separated_words_dawg_regex: the input text
    max_merge,      \* merge_separated_words_dawg_regex: the max_merge argument
    DAWGS,          \* the per-language dictionaries (automaton entries = word list)
    token_matches,  \* the spans found by get_token_matches(text)
    i,              \* cursor into token_matches
    last_end,       \* byte offset up to which text has been copied into result
    result,         \* the output string under construction
    decisions,      \* the windows examined by the latest try_merge_tokens call
    calls,          \* history: start index and merged count of every try_merge_tokens call
    pc,             \* position of merge_separated_words_dawg_regex
    ce_words,       \* contains_exact: the entries the automaton was built from
    ce_word,        \* contains_exact: the queried word
    ce_found,       \* contains_exact: the returned value
    ce_pc,          \* contains_exact: "call" before, "done" after
    fbm_sims,       \* find_best_match: per candidate, the encode/similarity outcome
    fbm_input,      \* find_best_match: outcome of encoding the input
    fbm_idx,        \* find_best_match: index of the next candidate of the loop
    best_score,     \* find_best_match: best_score
    best_candidate, \* find_best_match: best_candidate (index into candidates, or None)
    fbm_ret,        \* find_best_match: the returned value
    fbm_pc,         \* find_best_match: position
    raw,            \* clean_whisper_text: the text argument
    clean,          \* clean_whisper_text: `clean` after the three replace_all calls
    lang_tooled,    \* clean_whisper_text: the value of burt_correct_text
    lt_response,    \* clean_whisper_text: what the grammar service answered
    cw_ret,         \* clean_whisper_text: the returned string
    cw_pc,          \* clean_whisper_text: position
    bt_text,        \* burt_correct_text: the text argument
    bt_answer,      \* burt_correct_text: the answer of the grammar service
    bt_queue,       \* burt_correct_text: the sorted matches not yet iterated over
    bt_corrected,   \* burt_correct_text: `corrected`
    bt_prev,        \* burt_correct_text: `corrected` before the latest iteration
    bt_last,        \* burt_correct_text: the match of the latest iteration
    bt_pc,          \* burt_correct_text: position
    m_pc,           \* main: position of the main thread (the event loop's thread)
    awake,          \* main: `awake`
    seg,            \* main: number of the segment the loop iteration works on
    captured,       \* audio: number of segments the capture side has produced
    channel,        \* audio: the segments sent and not yet received, oldest first
    resources,      \* per language, whether the word list can be obtained and built
    main_dawgs,     \* main::DAWGS: the languages whose dictionary is loaded
    load_log,       \* history: the static initialised by each run of load_dawgs
    encoded,        \* history: each kind of fixed string was encoded never, once or again
    task,           \* the spawn_blocking task the main thread awaits
    trace,          \* the steps taken for the segments, in the order they happen
    cfg_files,      \* load_config: per path, what reading and parsing the file gives
    cfg_idx,        \* load_config: number of paths already iterated over
    seen_triggers,  \* load_config: `seen_triggers`
    combined_config,\* load_config: `combined_config.commands`
    cfg_pc          \* load_config: position ("loop", "ok", "err", "panicked")

merge_vars == <<text, max_merge, DAWGS, token_matches, i, last_end, result, decisions, calls, pc>>
ce_vars == <<ce_words, ce_word, ce_found, ce_pc>>
fbm_vars == <<fbm_sims, fbm_input, fbm_idx, best_score, best_candidate, fbm_ret, fbm_pc>>
clean_vars == <<raw, clean, lang_tooled, lt_response, cw_ret, cw_pc>>
burt_vars == <<bt_text, bt_answer, bt_queue, bt_corrected, bt_prev, bt_last, bt_pc>>
main_vars == <<m_pc, awake, seg, captured, channel, resources, main_dawgs, load_log, encoded, task, trace>>
cfg_vars == <<cfg_files, cfg_idx, seen_triggers, combined_config, cfg_pc>>
other_vars == <<clean_vars, burt_vars, main_vars, cfg_vars>>
not_clean_vars == <<ce_vars, fbm_vars, burt_vars, main_vars, cfg_vars>>
not_burt_vars == <<merge_vars, ce_vars, fbm_vars, clean_vars, main_vars, cfg_vars>>
not_main_vars == <<merge_vars, ce_vars, fbm_vars, clean_vars, burt_vars, cfg_vars>>
not_cfg_vars == <<merge_vars, ce_vars, fbm_vars, clean_vars, burt_vars, main_vars>>
vars == <<merge_vars, ce_vars, fbm_vars, other_vars>>

\* Option::None of try_merge_tokens / handle_merge_decision
None == [word |-> <<>>, count |-> 0]
\* Result::Err of check_word_with_bert
Err == -1
\* check_word_with_bert was not called for the window
NotCalled == -2

(***************************************************************************)
(* Bounds of the model.                                                    *)
(***************************************************************************)
MaxLen == 4          \* longest generated text, in characters
MaxMerge == 4        \* largest max_merge argument
MaxWordLen == 3      \* longest generated dictionary entry / query of contains_exact
MaxCandidates == 3   \* longest candidate list of find_best_match

(***************************************************************************)
(* Characters.                                                             *)
(***************************************************************************)
LowerLetters ==
    {"a", "b", "c", "d", "e", "f", "g", "h", "i", "j", "l", "m", "n", "o", "p",
     "r", "s", "t", "u", "egrave"}
UpperLetters == {"B", "E", "G", "I", "T"}
Ligatures == {"filig"}
Letters == LowerLetters \cup UpperLetters \cup Ligatures
Apostrophes == {"'", "rsquo"}
Whitespace == {" ", "tab"}
Punctuation == {",", ".", "[", "]", "_"}
Digits == {"9"}

\* \p{L} of the token regex
IsLetter(c) == c \in Letters
\* char::is_alphabetic
is_alphabetic(c) == c \in Letters
\* char::is_whitespace
is_whitespace(c) == c \in Whitespace
\* width of the character in UTF-8
Utf8Len(c) ==
    CASE c = "egrave" -> 2
      [] c = "rsquo" -> 3
      [] c = "filig" -> 3
      [] OTHER -> 1

Min2(a, b) == IF a <= b THEN a ELSE b
Max2(a, b) == IF a >= b THEN a ELSE b
SetMin(S) == CHOOSE x \in S : \A y \in S : x <= y
SetMax(S) == CHOOSE x \in S : \A y \in S : x >= y

RECURSIVE Flatten(_)
Flatten(ss) == IF ss = <<>> THEN <<>> ELSE Head(ss) \o Flatten(Tail(ss))

\* str::len: the length in bytes
RECURSIVE len(_)
len(s) == IF s = <<>> THEN 0 ELSE Utf8Len(Head(s)) + len(Tail(s))

\* byte offset of the character boundary after the first n characters
ByteOff(s, n) == len(SubSeq(s, 1, n))

\* number of characters before byte offset b (b is a character boundary)
CharIdx(s, b) == CHOOSE n \in 0..Len(s) : ByteOff(s, n) = b

\* &s[from..to] with byte offsets
Slice(s, from, to) == SubSeq(s, CharIdx(s, from) + 1, CharIdx(s, to))

\* str::contains
Contains(hay, needle) ==
    \E p \in 0..(Len(hay) - Len(needle)) : SubSeq(hay, p + 1, p + Len(needle)) = needle

\* char::to_lowercase
to_lowercase_char(c) ==
    CASE c = "B" -> <<"b">>
      [] c = "E" -> <<"e">>
      [] c = "G" -> <<"g">>
      [] c = "I" -> <<"i">>
      [] c = "T" -> <<"t">>
      [] OTHER -> <<c>>
\* NFKC of one character: the compatibility ligature decomposes
nfkc_char(c) ==
    CASE c = "filig" -> <<"f", "i">>
      [] OTHER -> <<c>>

to_lowercase(s) == Flatten([k \in 1..Len(s) |-> to_lowercase_char(s[k])])
nfkc(s) == Flatten([k \in 1..Len(s) |-> nfkc_char(s[k])])

\* tokens.join(sep)
RECURSIVE join(_, _)
join(parts, sep) ==
    IF parts = <<>> THEN <<>>
    ELSE IF Len(parts) = 1 THEN parts[1]
    ELSE parts[1] \o sep \o join(Tail(parts), sep)

(***************************************************************************)
(* dawg_loader.rs                                                          *)
(***************************************************************************)
\* DoubleArrayAhoCorasick::find_iter with the standard match kind: the
\* automaton restarts from the root after each reported match, reports the
\* first position at which any entry ends, and there the longest entry
\* that fits since the restart.
RECURSIVE find_iter_from(_, _, _)
find_iter_from(words, hay, pos) ==
    LET EndsAt(e) == {w \in words : /\ Len(w) <= e - pos
                                      /\ SubSeq(hay, e - Len(w) + 1, e) = w}
        ends == {e \in (pos + 1)..Len(hay) : EndsAt(e) # {}}
    IN IF ends = {} THEN <<>>
       ELSE LET e == SetMin(ends)
                l == SetMax({Len(w) : w \in EndsAt(e)})
            IN <<[start |-> ByteOff(hay, e - l), end |-> ByteOff(hay, e)]>>
               \o find_iter_from(words, hay, e)

find_iter(words, hay) == find_iter_from(words, hay, 0)

contains_exact(dawg, word) ==
    LET ms == find_iter(dawg, word)
    IN \E k \in 1..Len(ms) : ms[k].start = 0 /\ ms[k].end = len(word)

\* strsim::levenshtein, row by row
RECURSIVE LevRow(_, _, _, _)
LevRow(prev, ca, b, acc) ==
    IF Len(acc) = Len(b) + 1 THEN acc
    ELSE LET j == Len(acc)
             cost == IF ca = b[j] THEN 0 ELSE 1
             v == Min2(Min2(prev[j + 1] + 1, acc[j] + 1), prev[j] + cost)
         IN LevRow(prev, ca, b, Append(acc, v))

RECURSIVE LevRows(_, _, _, _)
LevRows(a, b, k, prev) ==
    IF k > Len(a) THEN prev[Len(b) + 1]
    ELSE LevRows(a, b, k + 1, LevRow(prev, a[k], b, <<prev[1] + 1>>))

levenshtein(a, b) == LevRows(a, b, 1, [j \in 1..(Len(b) + 1) |-> j - 1])

is_most_similar(word_list, query, max_distance) ==
    LET normalized_query == nfkc(to_lowercase(query))
    IN IF word_list = {} THEN FALSE
       ELSE SetMin({levenshtein(normalized_query, w) : w \in word_list}) <= max_distance

(***************************************************************************)
(* whisper_integration.rs: the merge engine                                *)
(***************************************************************************)
\* is_reasonable_word without `word.len() <= 20`
is_reasonable_word_any_length(word) ==
    \A k \in 1..Len(word) : is_alphabetic(word[k]) \/ word[k] = "'"

is_reasonable_word(word) ==
    /\ len(word) <= 20
    /\ \A k \in 1..Len(word) : is_alphabetic(word[k]) \/ word[k] = "'"

\* Regex \p{L}+(?:['rsquo]\p{L}+)* : end of the letter run starting at
\* character p (1-based), as the index of the first character after it.
RECURSIVE LetterRunEnd(_, _)
LetterRunEnd(s, p) ==
    IF p > Len(s) \/ ~IsLetter(s[p]) THEN p ELSE LetterRunEnd(s, p + 1)

\* the greedy group (?:['rsquo]\p{L}+)* after a letter run ending before q
RECURSIVE TokenEnd(_, _)
TokenEnd(s, q) ==
    IF q + 1 <= Len(s) /\ s[q] \in Apostrophes /\ IsLetter(s[q + 1])
    THEN TokenEnd(s, LetterRunEnd(s, q + 1))
    ELSE q

\* Regex::find_iter: leftmost, non-overlapping matches from character p on
RECURSIVE TokensFrom(_, _)
TokensFrom(s, p) ==
    IF p > Len(s) THEN <<>>
    ELSE IF ~IsLetter(s[p]) THEN TokensFrom(s, p + 1)
    ELSE LET e == TokenEnd(s, LetterRunEnd(s, p))
         IN <<[start |-> ByteOff(s, p - 1), end |-> ByteOff(s, e - 1)]>>
            \o TokensFrom(s, e)

get_token_matches(s) == TokensFrom(s, 1)

\* regex::Match::as_str
as_str(s, m) == Slice(s, m.start, m.end)

\* are_tokens_adjacent without the test of the gaps
are_tokens_adjacent_any_gap(s, toks, start_index, merge_len) ==
    \A j \in start_index..(start_index + merge_len - 2) :
        LET gap == Slice(s, toks[j + 1].end, toks[j + 2].start)
        IN Len(gap) >= 0

\* start_index is 0-based as in the source; token_matches[j] of the source
\* is toks[j + 1] here.
are_tokens_adjacent(s, toks, start_index, merge_len) ==
    \A j \in start_index..(start_index + merge_len - 2) :
        LET gap == Slice(s, toks[j + 1].end, toks[j + 2].start)
        IN \A k \in 1..Len(gap) : is_whitespace(gap[k])

\* build_candidates with the merged and the spaced form exchanged in the
\* returned tuple
build_candidates_swapped(s, toks, start_index, merge_len) ==
    LET tokens_to_merge == [k \in 1..merge_len |-> as_str(s, toks[start_index + k])]
        candidate == join(tokens_to_merge, <<>>)
        candidate_with_space == join(tokens_to_merge, <<" ">>)
    IN [candidate |-> candidate_with_space,
        candidate_with_space |-> candidate,
        candidate_lower |-> to_lowercase(nfkc(candidate)),
        candidate_with_space_lower |-> to_lowercase(nfkc(candidate_with_space))]

build_candidates(s, toks, start_index, merge_len) ==
    LET tokens_to_merge == [k \in 1..merge_len |-> as_str(s, toks[start_index + k])]
        candidate == join(tokens_to_merge, <<>>)
        candidate_with_space == join(tokens_to_merge, <<" ">>)
    IN [candidate |-> candidate,
        candidate_with_space |-> candidate_with_space,
        candidate_lower |-> to_lowercase(nfkc(candidate)),
        candidate_with_space_lower |-> to_lowercase(nfkc(candidate_with_space))]

\* check_in_dawg without the is_most_similar lookup
check_in_dawg_exact_only(dawgs, candidate_lower, candidate_with_space_lower) ==
    [in_dawg |-> \E lang \in DOMAIN dawgs :
                    contains_exact(dawgs[lang], candidate_lower),
     spaced_in_dawg |-> \E lang \in DOMAIN dawgs :
                    contains_exact(dawgs[lang], candidate_with_space_lower)]

\* dawgs maps each language to its entries: DAWGS.0[lang] is the automaton
\* built from them and DAWGS.1[lang] the word list.
check_in_dawg(dawgs, candidate_lower, candidate_with_space_lower) ==
    [in_dawg |-> \E lang \in DOMAIN dawgs :
                    \/ contains_exact(dawgs[lang], candidate_lower)
                    \/ is_most_similar(dawgs[lang], candidate_lower, 1),
     spaced_in_dawg |-> \E lang \in DOMAIN dawgs :
                    contains_exact(dawgs[lang], candidate_with_space_lower)]

\* Outcomes of check_word_with_bert: Err, or Ok(score) in thousandths.
PlausValues == {0, 99, 100, 1000}
BertOutcomes == {Err} \cup PlausValues

clamp(x, lo, hi) == IF x < lo THEN lo ELSE IF x > hi THEN hi ELSE x

\* compute_merge_score with the Err arm returning 0.0 for the whole score
compute_merge_score_err_returns(word, merge_len, bert) ==
    LET l == len(word)
        base_score == CASE merge_len = 2 -> 5000
                        [] merge_len = 3 -> 5500
                        [] OTHER -> 6000
        length_penalty == IF l < 5 THEN -500 ELSE 0
    IN IF ~(3 <= l /\ l <= 20) \/ bert = Err THEN 0
       ELSE clamp(base_score + length_penalty + bert, 0, 10000)

\* compute_merge_score without the weight 0.10 on the plausibility
compute_merge_score_unweighted(word, merge_len, bert) ==
    LET l == len(word)
        base_score == CASE merge_len = 2 -> 5000
                        [] merge_len = 3 -> 5500
                        [] OTHER -> 6000
        length_penalty == IF l < 5 THEN -500 ELSE 0
        bert_score == IF bert = Err THEN 0 ELSE 10 * bert
    IN IF ~(3 <= l /\ l <= 20) THEN 0
       ELSE clamp(base_score + length_penalty + bert_score, 0, 10000)

\* bert is the outcome of check_word_with_bert(word); ten-thousandths
compute_merge_score(word, merge_len, bert) ==
    LET l == len(word)
        base_score == CASE merge_len = 2 -> 5000
                        [] merge_len = 3 -> 5500
                        [] OTHER -> 6000
        length_penalty == IF l < 5 THEN -500 ELSE 0
        bert_score == IF bert = Err THEN 0 ELSE bert
    IN IF ~(3 <= l /\ l <= 20) THEN 0
       ELSE clamp(base_score + length_penalty + bert_score, 0, 10000)

merge_threshold(merge_len) ==
    CASE merge_len = 2 -> 7000
      [] merge_len = 3 -> 7500
      [] OTHER -> 8000

\* handle_merge_decision with `bert_score <= 0.1` in the short-pair test
handle_merge_decision_le(candidate, candidate_lower, spaced_in_dawg, merge_len, merge_score, bert) ==
    LET short_common_word == (merge_len = 2) /\ (len(candidate_lower) < 10)
        bert_score == IF bert = Err THEN 0 ELSE bert
    IN IF short_common_word
       THEN IF spaced_in_dawg /\ bert_score <= 100
            THEN None
            ELSE [word |-> candidate, count |-> merge_len]
       ELSE IF ~spaced_in_dawg \/ merge_score >= merge_threshold(merge_len)
            THEN [word |-> candidate, count |-> merge_len]
            ELSE None

\* handle_merge_decision with `&&` for `||` in the general test
handle_merge_decision_and(candidate, candidate_lower, spaced_in_dawg, merge_len, merge_score, bert) ==
    LET short_common_word == (merge_len = 2) /\ (len(candidate_lower) < 10)
        bert_score == IF bert = Err THEN 0 ELSE bert
    IN IF short_common_word
       THEN IF spaced_in_dawg /\ bert_score < 100
            THEN None
            ELSE [word |-> candidate, count |-> merge_len]
       ELSE IF ~spaced_in_dawg /\ merge_score >= merge_threshold(merge_len)
            THEN [word |-> candidate, count |-> merge_len]
            ELSE None

\* bert is the outcome of check_word_with_bert(candidate_lower)
handle_merge_decision(candidate, candidate_lower, spaced_in_dawg, merge_len, merge_score, bert) ==
    LET short_common_word == (merge_len = 2) /\ (len(candidate_lower) < 10)
        bert_score == IF bert = Err THEN 0 ELSE bert
    IN IF short_common_word
       THEN IF spaced_in_dawg /\ bert_score < 100
            THEN None
            ELSE [word |-> candidate, count |-> merge_len]
       ELSE IF ~spaced_in_dawg \/ merge_score >= merge_threshold(merge_len)
            THEN [word |-> candidate, count |-> merge_len]
            ELSE None

\* One iteration of the loop of try_merge_tokens, for one merge_len: how
\* far the window got and, if the iteration returned, what it returned.
NoWindow(start_index, merge_len, stage) ==
    [start_index |-> start_index, merge_len |-> merge_len, stage |-> stage,
     candidate_lower |-> <<>>, in_dawg |-> FALSE, spaced_in_dawg |-> FALSE,
     bert |-> NotCalled, merge_score |-> 0, merged |-> None]

try_window(s, toks, dawgs, start_index, merge_len, bert) ==
    IF ~(start_index + merge_len <= Len(toks))
    THEN NoWindow(start_index, merge_len, "absent")
    ELSE IF ~are_tokens_adjacent(s, toks, start_index, merge_len)
    THEN NoWindow(start_index, merge_len, "not_adjacent")
    ELSE LET c == build_candidates(s, toks, start_index, merge_len)
         IN IF ~is_reasonable_word(c.candidate_lower)
            THEN [NoWindow(start_index, merge_len, "unreasonable")
                      EXCEPT !.candidate_lower = c.candidate_lower]
            ELSE LET chk == check_in_dawg(dawgs, c.candidate_lower,
                                          c.candidate_with_space_lower)
                 IN IF ~chk.in_dawg
                    THEN [NoWindow(start_index, merge_len, "not_in_dict")
                              EXCEPT !.candidate_lower = c.candidate_lower,
                                     !.spaced_in_dawg = chk.spaced_in_dawg]
                    ELSE LET merge_score ==
                                 compute_merge_score(c.candidate_lower, merge_len, bert)
                             d == handle_merge_decision(c.candidate, c.candidate_lower,
                                      chk.spaced_in_dawg, merge_len, merge_score, bert)
                         IN [start_index |-> start_index, merge_len |-> merge_len,
                             stage |-> IF d = None THEN "refused" ELSE "merged",
                             candidate_lower |-> c.candidate_lower,
                             in_dawg |-> TRUE,
                             spaced_in_dawg |-> chk.spaced_in_dawg,
                             bert |-> bert, merge_score |-> merge_score,
                             merged |-> d]

\* try_merge_tokens with the loop running upwards, `for merge_len in
\* 2..=max_merge`
RECURSIVE try_merge_windows_up(_, _, _, _, _, _, _)
try_merge_windows_up(s, toks, dawgs, start_index, k, merge_len, bert) ==
    IF k > merge_len THEN <<>>
    ELSE LET w == try_window(s, toks, dawgs, start_index, k, bert[k])
         IN IF w.merged # None THEN <<w>>
            ELSE <<w>> \o try_merge_windows_up(s, toks, dawgs, start_index,
                                               k + 1, merge_len, bert)

try_merge_windows_ascending(s, toks, dawgs, start_index, merge_len, bert) ==
    try_merge_windows_up(s, toks, dawgs, start_index, 2, merge_len, bert)

\* The iterations of `for merge_len in (2..=max_merge).rev()` from merge_len
\* down, up to and including the one that returns.  bert[k] is the outcome
\* of check_word_with_bert for the candidate of length-k window.
RECURSIVE try_merge_windows(_, _, _, _, _, _)
try_merge_windows(s, toks, dawgs, start_index, merge_len, bert) ==
    IF merge_len < 2 THEN <<>>
    ELSE LET w == try_window(s, toks, dawgs, start_index, merge_len, bert[merge_len])
         IN IF w.merged # None THEN <<w>>
            ELSE <<w>> \o try_merge_windows(s, toks, dawgs, start_index,
                                            merge_len - 1, bert)

\* the value returned by try_merge_tokens, given the iterations it ran
try_merge_tokens(windows) ==
    IF windows # <<>> /\ windows[Len(windows)].merged # None
    THEN windows[Len(windows)].merged
    ELSE None

\* the window sizes whose candidate reaches check_word_with_bert
ScoredLens(s, toks, dawgs, start_index, mm) ==
    {k \in 2..mm : try_window(s, toks, dawgs, start_index, k, 0).stage
                       \in {"refused", "merged"}}

\* every assignment of an outcome to the scored window sizes
RECURSIVE BertOracles(_, _)
BertOracles(scored, base) ==
    IF scored = {} THEN {base}
    ELSE LET k == CHOOSE x \in scored : TRUE
         IN UNION {BertOracles(scored \ {k}, [base EXCEPT ![k] = o]) : o \in BertOutcomes}

(***************************************************************************)
(* Inputs of the merge engine.                                             *)
(***************************************************************************)
GenChars == {"a", "B", " ", ","}
GenTexts == UNION {[1..n -> GenChars] : n \in 0..MaxLen}

AuJourDHui == <<"a", "u", " ", "j", "o", "u", "r", " ", "d", " ", "h", "u", "i">>
\* main.rs, test_merge_separated_words_dawg_regex
TestSentence ==
    <<"I", "l", " ", "e", "s", "t", " ", "a", "u", " ", "j", "o", "u", "r", " ",
      "d", " ", "h", "u", "i", " ", "u", "n", " ", "b", "e", "l", " ", "a", "p",
      "r", "egrave", "s", " ", "m", "i", "d", "i", ".">>
BonJour == <<"b", "o", "n", " ", "j", "o", "u", "r">>
AujourDhui == <<"a", "u", "j", "o", "u", "r", " ", "d", "h", "u", "i">>
AnticonstitutionNellement ==
    <<"a", "n", "t", "i", "c", "o", "n", "s", "t", "i", "t", "u", "t", "i", "o",
      "n", " ", "n", "e", "l", "l", "e", "m", "e", "n", "t">>
LRsquoAB == <<"l", "rsquo", "a", " ", "b">>
AAB == <<"a", " ", "a", " ", "B">>
AABTail == <<",", "a", " ", " ", "a", " ", "B", ",", "a", "'", "a", ".">>
FiligN == <<"filig", " ", "n">>
ScenarioTexts ==
    {AuJourDHui, TestSentence, BonJour, AujourDhui, AnticonstitutionNellement,
     LRsquoAB, FiligN, AAB, AABTail}

Texts == GenTexts \cup ScenarioTexts

W_aujourdhui == <<"a", "u", "j", "o", "u", "r", "d", "h", "u", "i">>
W_aujourd_hui == <<"a", "u", "j", "o", "u", "r", "d", "'", "h", "u", "i">>
W_bonjour == <<"b", "o", "n", "j", "o", "u", "r">>
W_bon == <<"b", "o", "n">>
W_anticonstitutionnellement ==
    <<"a", "n", "t", "i", "c", "o", "n", "s", "t", "i", "t", "u", "t", "i", "o",
      "n", "n", "e", "l", "l", "e", "m", "e", "n", "t">>

\* Dictionaries as parse_hunspell_dic leaves them: non-empty, lower-case,
\* NFKC entries, no duplicates; one word list per language of DICTIONARIES.
GenDictionaries ==
    { [fr |-> {}, en |-> {}],
      [fr |-> {<<"a", "b">>}, en |-> {}],
      [fr |-> {<<"a", "b">>, <<"a", " ", "b">>}, en |-> {<<"a", "a", "b">>}],
      [fr |-> {<<"a">>, <<"a", "b">>}, en |-> {}],
      [fr |-> {<<"a", "a", "b">>}, en |-> {<<"a", " ", "a", " ", "b">>}] }
ScenarioDictionaries ==
    { [fr |-> {W_aujourd_hui}, en |-> {}],
      [fr |-> {W_aujourdhui}, en |-> {AuJourDHui}],
      [fr |-> {W_aujourdhui, W_bonjour, W_anticonstitutionnellement,
               <<"f", "i", "n">>, <<"l", "rsquo", "a", "b">>},
       en |-> {BonJour, AujourDhui}],
      [fr |-> {W_bon, W_bonjour, BonJour}, en |-> {}] }
Dictionaries == GenDictionaries \cup ScenarioDictionaries

(***************************************************************************)
(* merge_separated_words_dawg_regex as a state machine: one action per     *)
(* iteration of its while loop and one for the code after the loop.        *)
(***************************************************************************)
CeIdle ==
    /\ ce_words = {} /\ ce_word = <<>> /\ ce_found = FALSE /\ ce_pc = "idle"
FbmIdle ==
    /\ fbm_sims = <<>> /\ fbm_input = 0 /\ fbm_idx = 0 /\ best_score = 0
    /\ best_candidate = 0 /\ fbm_ret = [kind |-> "None", candidate |-> 0, score |-> 0]
    /\ fbm_pc = "idle"
MergeIdle ==
    /\ text = <<>> /\ max_merge = 0 /\ DAWGS = [fr |-> {}, en |-> {}]
    /\ token_matches = <<>> /\ i = 0 /\ last_end = 0 /\ result = <<>>
    /\ decisions = <<>> /\ calls = <<>> /\ pc = "idle"
CleanIdle ==
    /\ raw = <<>> /\ clean = <<>> /\ lang_tooled = <<>>
    /\ lt_response = [ok |-> TRUE, matches |-> <<>>]
    /\ cw_ret = <<>> /\ cw_pc = "idle"
BurtIdle ==
    /\ bt_text = <<>> /\ bt_answer = [ok |-> TRUE, matches |-> <<>>] /\ bt_queue = <<>>
    /\ bt_corrected = <<>> /\ bt_prev = <<>>
    /\ bt_last = [offset |-> 0, length |-> 0, replacements |-> <<>>]
    /\ bt_pc = "idle"
MainIdle ==
    /\ m_pc = "idle" /\ awake = FALSE /\ seg = 0 /\ captured = 0 /\ channel = <<>>
    /\ resources = [fr |-> "cached", en |-> "cached"] /\ main_dawgs = {}
    /\ load_log = <<>> /\ encoded = [wake |-> "never", triggers |-> "never", reference |-> "never"]
    /\ task = [kind |-> "none", seg |-> 0, status |-> "idle", ret |-> "none"]
    /\ trace = <<>>
CfgIdle ==
    /\ cfg_files = <<>> /\ cfg_idx = 0 /\ seen_triggers = {} /\ combined_config = <<>>
    /\ cfg_pc = "idle"
OtherIdle == CleanIdle /\ BurtIdle /\ MainIdle /\ CfgIdle

Init ==
    /\ \/ text \in GenTexts /\ DAWGS \in GenDictionaries
       \/ text \in ScenarioTexts /\ DAWGS \in Dictionaries
    /\ max_merge \in 1..MaxMerge
    /\ token_matches = get_token_matches(text)
    /\ i = 0
    /\ last_end = 0
    /\ result = <<>>
    /\ decisions = <<>>
    /\ calls = <<>>
    /\ pc = "loop"
    /\ CeIdle
    /\ FbmIdle
    /\ OtherIdle

\* the iterations try_merge_tokens can run at the cursor, one sequence per
\* assignment of embedding outcomes
TryMergeRuns ==
    LET base == [k \in 2..max_merge |-> NotCalled]
        scored == ScoredLens(text, token_matches, DAWGS, i, max_merge)
    IN {try_merge_windows(text, token_matches, DAWGS, i, max_merge, bert) :
            bert \in BertOracles(scored, base)}

\* the merge branch with `i += 1`
LoopMerge_CursorByOne ==
    /\ pc = "loop"
    /\ i < Len(token_matches)
    /\ \E windows \in TryMergeRuns :
          LET r == try_merge_tokens(windows)
              token_start == token_matches[i + 1].start
          IN /\ r # None
             /\ result' = result \o Slice(text, last_end, token_start) \o r.word
             /\ last_end' = token_matches[i + r.count].end
             /\ i' = i + 1
             /\ decisions' = windows
             /\ calls' = Append(calls, [start_index |-> i, merged_count |-> r.count])
    /\ UNCHANGED <<text, max_merge, DAWGS, token_matches, pc, ce_vars, fbm_vars, other_vars>>

\* while-loop iteration, `if let Some((merged_word, merged_count))` branch
LoopMerge ==
    /\ pc = "loop"
    /\ i < Len(token_matches)
    /\ \E windows \in TryMergeRuns :
          LET r == try_merge_tokens(windows)
              token_start == token_matches[i + 1].start
          IN /\ r # None
             /\ result' = result \o Slice(text, last_end, token_start) \o r.word
             /\ last_end' = token_matches[i + r.count].end
             /\ i' = i + r.count
             /\ decisions' = windows
             /\ calls' = Append(calls, [start_index |-> i, merged_count |-> r.count])
    /\ UNCHANGED <<text, max_merge, DAWGS, token_matches, pc, ce_vars, fbm_vars, other_vars>>

\* the else branch without `result.push_str(&text[last_end..token_start])`
LoopCopy_DropsGap ==
    /\ pc = "loop"
    /\ i < Len(token_matches)
    /\ \E windows \in TryMergeRuns :
          LET r == try_merge_tokens(windows)
              token_start == token_matches[i + 1].start
              token_end == token_matches[i + 1].end
          IN /\ r = None
             /\ result' = result \o Slice(text, token_start, token_end)
             /\ last_end' = token_end
             /\ i' = i + 1
             /\ decisions' = windows
             /\ calls' = Append(calls, [start_index |-> i, merged_count |-> r.count])
    /\ UNCHANGED <<text, max_merge, DAWGS, token_matches, pc, ce_vars, fbm_vars, other_vars>>

\* while-loop iteration, else branch: the token is copied
LoopCopy ==
    /\ pc = "loop"
    /\ i < Len(token_matches)
    /\ \E windows \in TryMergeRuns :
          LET r == try_merge_tokens(windows)
              token_start == token_matches[i + 1].start
              token_end == token_matches[i + 1].end
          IN /\ r = None
             /\ result' = result \o Slice(text, last_end, token_start)
                                 \o Slice(text, token_start, token_end)
             /\ last_end' = token_end
             /\ i' = i + 1
             /\ decisions' = windows
             /\ calls' = Append(calls, [start_index |-> i, merged_count |-> r.count])
    /\ UNCHANGED <<text, max_merge, DAWGS, token_matches, pc, ce_vars, fbm_vars, other_vars>>

\* after the loop: the text after the last token is appended
LoopExit ==
    /\ pc = "loop"
    /\ ~(i < Len(token_matches))
    /\ result' = result \o Slice(text, last_end, len(text))
    /\ pc' = "done"
    /\ UNCHANGED <<text, max_merge, DAWGS, token_matches, i, last_end, decisions, calls,
                   ce_vars, fbm_vars, other_vars>>

Next == LoopMerge \/ LoopCopy \/ LoopExit

Spec == Init /\ [][Next]_vars

(***************************************************************************)
(* contains_exact on its own: the automaton is built from ce_words (as     *)
(* load_dawgs builds it from the parsed word list) and queried once.       *)
(***************************************************************************)
WordChars == {"a", "b"}
\* the non-empty words of at most MaxWordLen characters
GenWords == UNION {[1..n -> WordChars] : n \in 1..MaxWordLen}

InitContainsExact ==
    /\ ce_words \in {ws \in SUBSET GenWords : Cardinality(ws) <= 2}
    /\ ce_word \in GenWords \cup {<<>>}
    /\ ce_found = FALSE
    /\ ce_pc = "call"
    /\ MergeIdle
    /\ FbmIdle
    /\ OtherIdle

ContainsExactCall ==
    /\ ce_pc = "call"
    /\ ce_found' = contains_exact(ce_words, ce_word)
    /\ ce_pc' = "done"
    /\ UNCHANGED <<ce_words, ce_word, merge_vars, fbm_vars, other_vars>>

NextContainsExact == ContainsExactCall

SpecContainsExact == InitContainsExact /\ [][NextContainsExact]_vars

(***************************************************************************)
(* bert.rs: find_best_match.  Candidates are identified by their position  *)
(* in the list (1-based); fbm_sims[c] is EncodeErr when encode_sentence    *)
(* fails for candidate c, and otherwise the cosine similarity of the input *)
(* and the candidate in thousandths, or NaN.                               *)
(***************************************************************************)
threshold == 750
\* f32::NAN, the value of cosine_similarity for a zero vector
NaN == 2000
\* encode_sentence returned Err
EncodeErr == -2000
SimValues == {-1000, 0, 749, 750, 751, 1000}
SimOutcomes == SimValues \cup {NaN, EncodeErr}

\* a > b on f32: false when either side is NaN
FGt(a, b) == a # NaN /\ b # NaN /\ a > b

FbmErr == [kind |-> "Err", candidate |-> 0, score |-> 0]
FbmNone == [kind |-> "None", candidate |-> 0, score |-> 0]
FbmSome(c, sc) == [kind |-> "Some", candidate |-> c, score |-> sc]

\* the loop condition with `similarity >= threshold`
is_better_ge_threshold(similarity, best) ==
    (similarity # NaN /\ similarity >= threshold) /\ FGt(similarity, best)

\* the loop condition with `similarity >= best_score`
is_better_ge_best(similarity, best) ==
    FGt(similarity, threshold) /\ (similarity # NaN /\ best # NaN /\ similarity >= best)

\* the condition under which the loop replaces the best candidate
is_better(similarity, best) == FGt(similarity, threshold) /\ FGt(similarity, best)

InitFindBestMatch ==
    /\ fbm_sims \in UNION {[1..n -> SimOutcomes] : n \in 0..MaxCandidates}
    /\ fbm_input \in {0, EncodeErr}
    /\ fbm_idx = 0
    /\ best_score = 0
    /\ best_candidate = 0
    /\ fbm_ret = FbmNone
    /\ fbm_pc = "encode_input"
    /\ MergeIdle
    /\ CeIdle
    /\ OtherIdle

\* let input_embedding = encode_sentence(input)?;
FbmEncodeInput ==
    /\ fbm_pc = "encode_input"
    /\ IF fbm_input = EncodeErr
       THEN fbm_ret' = FbmErr /\ fbm_pc' = "done"
       ELSE fbm_ret' = fbm_ret /\ fbm_pc' = "loop"
    /\ UNCHANGED <<fbm_sims, fbm_input, fbm_idx, best_score, best_candidate,
                   merge_vars, ce_vars, other_vars>>

\* one iteration of `for candidate in candidates`
FbmCandidate ==
    /\ fbm_pc = "loop"
    /\ fbm_idx < Len(fbm_sims)
    /\ LET similarity == fbm_sims[fbm_idx + 1]
       IN IF similarity = EncodeErr
          THEN /\ fbm_ret' = FbmErr
               /\ fbm_pc' = "done"
               /\ UNCHANGED <<fbm_idx, best_score, best_candidate>>
          ELSE /\ IF is_better(similarity, best_score)
                  THEN best_score' = similarity /\ best_candidate' = fbm_idx + 1
                  ELSE UNCHANGED <<best_score, best_candidate>>
               /\ fbm_idx' = fbm_idx + 1
               /\ UNCHANGED <<fbm_ret, fbm_pc>>
    /\ UNCHANGED <<fbm_sims, fbm_input, merge_vars, ce_vars, other_vars>>

\* Ok(best_candidate.map(|c| (c, best_score)))
FbmReturn ==
    /\ fbm_pc = "loop"
    /\ fbm_idx = Len(fbm_sims)
    /\ fbm_ret' = IF best_candidate = 0 THEN FbmNone
                  ELSE FbmSome(best_candidate, best_score)
    /\ fbm_pc' = "done"
    /\ UNCHANGED <<fbm_sims, fbm_input, fbm_idx, best_score, best_candidate,
                   merge_vars, ce_vars, other_vars>>

NextFindBestMatch == FbmEncodeInput \/ FbmCandidate \/ FbmReturn

SpecFindBestMatch == InitFindBestMatch /\ [][NextFindBestMatch]_vars

(***************************************************************************)
(* Properties of the merge engine (checked under Spec).                    *)
(***************************************************************************)
\* word is an entry of the word list of some language
IsEntry(word) == \E lang \in DOMAIN DAWGS : word \in DAWGS[lang]

\* the candidates of the window of k tokens at start index s of the input
WindowCandidates(s, k) == build_candidates(text, token_matches, s, k)

\* the membership check of the window of k tokens at start index s
WindowCheck(s, k) ==
    check_in_dawg(DAWGS, WindowCandidates(s, k).candidate_lower,
                  WindowCandidates(s, k).candidate_with_space_lower)

\* the windows of the latest try_merge_tokens call that reached the
\* decision rule
Decided == {j \in 1..Len(decisions) : decisions[j].stage \in {"refused", "merged"}}

\* no window of k consecutive tokens, 2 <= k <= max_merge, is accepted by
\* the membership check
NoDictionaryHit ==
    \A s \in 0..(Len(token_matches) - 2) :
        \A k \in 2..max_merge :
            s + k <= Len(token_matches) => ~WindowCheck(s, k).in_dawg

\* C1: if no window of 2..max_merge consecutive tokens at any start index is
\* accepted by the membership check, merge_separated_words_dawg_regex
\* returns exactly its input text.
C1_NoDictionaryHitIdentity ==
    (pc = "done" /\ NoDictionaryHit) => result = text

\* C1 witness: a finished run over a text with a whitespace-adjacent pair of
\* tokens that a non-empty dictionary does not accept.
C1_Witness ==
    /\ pc = "done"
    /\ NoDictionaryHit
    /\ max_merge >= 2
    /\ DAWGS.fr # {}
    /\ Len(token_matches) >= 2
    /\ are_tokens_adjacent(text, token_matches, 0, 2)
    /\ result = text

\* C2 as stated: every examined window of whitespace-adjacent tokens whose
\* normalized concatenation is an entry of some dictionary and whose
\* space-joined form is an entry of none is merged, whatever the
\* plausibility and whatever the length of the candidate.
C2_Original ==
    \A j \in 1..Len(decisions) :
        LET d == decisions[j]
        IN (/\ d.stage \notin {"absent", "not_adjacent"}
            /\ IsEntry(WindowCandidates(d.start_index, d.merge_len).candidate_lower)
            /\ ~IsEntry(WindowCandidates(d.start_index, d.merge_len)
                            .candidate_with_space_lower))
           => d.stage = "merged"

\* C2 amended: every examined window of whitespace-adjacent tokens whose
\* normalized concatenation passes the sanity filter (at most 20 bytes, only
\* alphabetic characters or apostrophes), is an entry of some dictionary and
\* whose space-joined form is an entry of none is merged, whatever the
\* plausibility score.
C2_ExactMatchMonotonicity ==
    \A j \in 1..Len(decisions) :
        LET d == decisions[j]
        IN (/\ d.stage \notin {"absent", "not_adjacent"}
            /\ is_reasonable_word(
                   WindowCandidates(d.start_index, d.merge_len).candidate_lower)
            /\ IsEntry(WindowCandidates(d.start_index, d.merge_len).candidate_lower)
            /\ ~IsEntry(WindowCandidates(d.start_index, d.merge_len)
                            .candidate_with_space_lower))
           => d.stage = "merged"

\* C2 witness: an exact entry hidden from the automaton by a shorter entry
\* that is its prefix is merged although the embedding oracle failed.
C2_Witness ==
    \E j \in 1..Len(decisions) :
        LET d == decisions[j]
        IN /\ d.stage = "merged"
           /\ d.bert = Err
           /\ IsEntry(d.candidate_lower)
           /\ \E lang \in DOMAIN DAWGS :
                 /\ d.candidate_lower \in DAWGS[lang]
                 /\ ~contains_exact(DAWGS[lang], d.candidate_lower)
           /\ ~IsEntry(WindowCandidates(d.start_index, d.merge_len)
                           .candidate_with_space_lower)

\* the value of unwrap_or(0.0) on the outcome of check_word_with_bert
Plausibility(bert) == IF bert = Err THEN 0 ELSE bert

WindowPasses(s, k, bert) ==
    /\ s + k <= Len(token_matches)
    /\ are_tokens_adjacent(text, token_matches, s, k)
    /\ is_reasonable_word(WindowCandidates(s, k).candidate_lower)
    /\ WindowCheck(s, k).in_dawg
    /\ handle_merge_decision(WindowCandidates(s, k).candidate,
           WindowCandidates(s, k).candidate_lower,
           WindowCheck(s, k).spaced_in_dawg, k,
           compute_merge_score(WindowCandidates(s, k).candidate_lower, k, bert),
           bert) # None

\* C5: try_merge_tokens examines the window sizes in strictly decreasing
\* order from max_merge; it stops at the first size whose window passes
\* every check and returns that size, so every larger size failed a check;
\* it returns nothing only if every size down to 2 failed.
C5_LongestMergePreferred ==
    decisions # <<>> =>
        LET n == Len(decisions)
            s == decisions[1].start_index
        IN /\ \A j \in 1..n : /\ decisions[j].merge_len = max_merge - j + 1
                              /\ decisions[j].start_index = s
           /\ \A j \in 1..n :
                 decisions[j].stage = "merged"
                     <=> WindowPasses(s, decisions[j].merge_len, decisions[j].bert)
           /\ \A j \in 1..(n - 1) : decisions[j].stage # "merged"
           /\ decisions[n].stage # "merged" => decisions[n].merge_len = 2
           /\ i = s + (IF decisions[n].stage = "merged"
                       THEN decisions[n].merge_len ELSE 1)

\* C5 witness: a 3-token merge is returned after the 4-token window failed,
\* at a position where the 2-token window would have passed too.
C5_Witness ==
    /\ Len(decisions) = 2
    /\ decisions[1].merge_len = 4
    /\ decisions[1].stage = "not_adjacent"
    /\ decisions[2].stage = "merged"
    /\ \E b \in BertOutcomes : WindowPasses(decisions[1].start_index, 2, b)

C8_TestContract ==
    (/\ pc = "done"
     /\ text = TestSentence
     /\ max_merge = 4
     /\ IsEntry(W_aujourd_hui))
    => Contains(result, W_aujourd_hui)

(***************************************************************************)
(* Properties of contains_exact (checked under SpecContainsExact).         *)
(***************************************************************************)
\* C6: contains_exact(dictionary, word) is true if and only if word is
\* equal to a complete entry of the dictionary, also when a shorter entry
\* is a proper prefix of it.
C6_ContainsExactIffEntry ==
    ce_pc = "done" => (ce_found <=> ce_word \in ce_words)

(***************************************************************************)
(* Properties of find_best_match (checked under SpecFindBestMatch).        *)
(***************************************************************************)
\* the call returned Ok: every encode_sentence call succeeded
FbmOk == fbm_pc = "done" /\ fbm_ret.kind # "Err"

\* C9: find_best_match never returns a candidate whose similarity is at or
\* below the threshold 0.75, and returns None when no candidate is strictly
\* above it.
C9_ThresholdBoundary ==
    FbmOk =>
        /\ fbm_ret.kind = "Some" =>
              /\ fbm_sims[fbm_ret.candidate] \in SimValues
              /\ fbm_sims[fbm_ret.candidate] > 750
              /\ fbm_ret.score > 750
        /\ (\A c \in 1..Len(fbm_sims) : fbm_sims[c] = NaN \/ fbm_sims[c] <= 750)
              => fbm_ret.kind = "None"

\* C9 witness: the highest-scoring candidate is exactly at the threshold
\* and nothing is returned.
C9_Witness ==
    /\ FbmOk
    /\ Len(fbm_sims) >= 2
    /\ \E c \in 1..Len(fbm_sims) : fbm_sims[c] = 750
    /\ \A c \in 1..Len(fbm_sims) : fbm_sims[c] <= 750
    /\ fbm_ret.kind = "None"

\* C10: when some candidate is strictly above the threshold,
\* find_best_match returns the maximum similarity and the first candidate
\* of the list that has it.
C10_MaxFirst ==
    (FbmOk /\ \E c \in 1..Len(fbm_sims) : fbm_sims[c] # NaN /\ fbm_sims[c] > 750)
    => LET nums == {c \in 1..Len(fbm_sims) : fbm_sims[c] # NaN}
           m == SetMax({fbm_sims[c] : c \in nums})
           first == SetMin({c \in nums : fbm_sims[c] = m})
       IN fbm_ret = [kind |-> "Some", candidate |-> first, score |-> m]

\* C10 witness: two candidates share the maximum, after a lower candidate
\* that is also above the threshold; the first of the two is returned.
C10_Witness ==
    /\ FbmOk
    /\ fbm_sims = <<751, 1000, 1000>>
    /\ fbm_ret = [kind |-> "Some", candidate |-> 2, score |-> 1000]

\* s without its white space
NoSpace(s) == SelectSeq(s, LAMBDA c : ~is_whitespace(c))

\* the windows of the latest try_merge_tokens call whose embedding call failed
Failed == {j \in Decided : decisions[j].bert = Err}

\* a window with a failed embedding call is scored and decided as one with
\* plausibility 0, and the loop of try_merge_tokens goes on after a refusal
ErrAbsorbed ==
    \A j \in Failed :
        LET d == decisions[j]
            c == WindowCandidates(d.start_index, d.merge_len)
            l == len(d.candidate_lower)
        IN /\ d.merge_score = compute_merge_score(d.candidate_lower, d.merge_len, 0)
           /\ d.merged = handle_merge_decision(c.candidate, d.candidate_lower,
                             d.spaced_in_dawg, d.merge_len, d.merge_score, 0)
           /\ (3 <= l /\ l <= 20) => d.merge_score >= 4500
           /\ (d.merge_len = 2 /\ l < 10) => (d.stage = "refused" <=> d.spaced_in_dawg)
           /\ (d.stage = "refused" /\ d.merge_len > 2) =>
                 /\ Len(decisions) > j
                 /\ decisions[j + 1].merge_len = d.merge_len - 1

\* C17: a failed embedding call counts as plausibility 0 in the score and in
\* the short-pair test, the window is decided with that value, and the pass
\* goes on: after a failure the loop is still running with its cursor moved
\* past the window, and the returned string is the whole text (nothing but
\* white space between merged tokens is lost).
C17_EmbeddingFailureAbsorbed ==
    /\ ErrAbsorbed
    /\ (Failed # {} /\ pc # "done") =>
          /\ pc = "loop"
          /\ decisions[1].start_index < i
          /\ i <= Len(token_matches)
    /\ pc = "done" => NoSpace(result) = NoSpace(text)

\* C17 witness: in "a a B" with max_merge 3 the embedding call fails for
\* "aab", the window is refused with the score of plausibility 0, and the
\* window of 2 tokens is examined next.
C17_Witness ==
    /\ text = AAB
    /\ Len(decisions) = 2
    /\ decisions[1].merge_len = 3
    /\ decisions[1].bert = Err
    /\ decisions[1].stage = "refused"
    /\ decisions[1].merge_score = 5000
    /\ decisions[2].merge_len = 2

\* C18: when encoding one candidate phrase fails, the candidate counts as
\* score 0 and the other candidates are still compared: find_best_match
\* returns Some or None, never the error.
C18_CandidateErrorSwallowed ==
    (/\ fbm_pc = "done"
     /\ fbm_input # EncodeErr
     /\ \E c \in 1..Len(fbm_sims) : fbm_sims[c] = EncodeErr) =>
        /\ fbm_ret.kind \in {"Some", "None"}
        /\ fbm_idx = Len(fbm_sims)

\* the sanity filter in the words of the specification: at most 20 bytes,
\* only alphabetic characters or apostrophes
Sane(w) ==
    /\ len(w) <= 20
    /\ \A k \in 1..Len(w) : is_alphabetic(w[k]) \/ w[k] = "'"

\* C23: for every candidate window the sanity filter is evaluated before
\* any dictionary query, edit-distance query or embedding call; a candidate
\* that fails it triggers none of them and is never merged, and every window
\* that reached a lookup has a candidate that passes the filter.
C23_FilterBeforeLookups ==
    \A j \in 1..Len(decisions) :
        LET d == decisions[j]
        IN d.stage \notin {"absent", "not_adjacent"} =>
              LET c == WindowCandidates(d.start_index, d.merge_len).candidate_lower
              IN /\ ~Sane(c) => /\ d.stage = "unreasonable"
                                /\ ~d.in_dawg
                                /\ ~d.spaced_in_dawg
                                /\ d.bert = NotCalled
                                /\ d.merged = None
                 /\ d.stage \in {"not_in_dict", "refused", "merged"} => Sane(c)
                 /\ d.bert # NotCalled => (Sane(c) /\ d.in_dawg)

\* C23 witness: a candidate with a typographic apostrophe that is an entry
\* of a dictionary is stopped by the filter and its first token is copied.
C23_Witness ==
    /\ text = LRsquoAB
    /\ i = 1
    /\ result = <<"l", "rsquo", "a">>
    /\ \E j \in 1..Len(decisions) :
          /\ decisions[j].stage = "unreasonable"
          /\ IsEntry(decisions[j].candidate_lower)
          /\ decisions[j].bert = NotCalled

\* the cursor after the call calls[k]
CursorAfter(k) == IF k < Len(calls) THEN calls[k + 1].start_index ELSE i

\* C24: the scan runs at most one iteration per token, every iteration has
\* an outcome, and the scan returns when the cursor reaches the end; the
\* cursor strictly increases, by the number of tokens consumed on a merge
\* and by 1 otherwise; each token index is a start index at most once; no
\* token inside an accepted window is a start index again or part of a
\* later window.
C24_SinglePassGreedyScan ==
    /\ Len(calls) <= Len(token_matches)
    /\ i <= Len(token_matches)
    /\ pc = "done" => i = Len(token_matches)
    /\ (pc = "loop" /\ i < Len(token_matches)) => TryMergeRuns # {}
    /\ \A k \in 1..Len(calls) :
          /\ CursorAfter(k) > calls[k].start_index
          /\ CursorAfter(k) = calls[k].start_index
                 + (IF calls[k].merged_count > 0 THEN calls[k].merged_count ELSE 1)
    /\ \A k, l \in 1..Len(calls) :
          k < l => /\ calls[k].start_index # calls[l].start_index
                   /\ calls[l].start_index >= calls[k].start_index + calls[k].merged_count
    /\ \A j \in 1..Len(decisions) :
          /\ decisions[j].start_index = calls[Len(calls)].start_index
          /\ \A k \in 1..(Len(calls) - 1) :
                decisions[j].start_index >= calls[k].start_index + calls[k].merged_count

\* C24 witness: in a finished scan of 4 tokens the first call merged two
\* tokens and the second call started at the token after them.
C24_Witness ==
    /\ pc = "done"
    /\ Len(token_matches) = 4
    /\ Len(calls) >= 2
    /\ calls[1] = [start_index |-> 0, merged_count |-> 2]
    /\ calls[2].start_index = 2

\* some language has an entry at Levenshtein distance at most 1 from w
NearEntry(w) ==
    \E lang \in DOMAIN DAWGS : \E e \in DAWGS[lang] : levenshtein(w, e) <= 1

\* C25: in_dict is true if and only if some language has the concatenated
\* form as an entry or an entry at Levenshtein distance at most 1 from it;
\* spaced_in_dict is true if and only if some language has the space-joined
\* form as an entry.
C25_MembershipAcrossLanguages ==
    \A j \in 1..Len(decisions) :
        LET d == decisions[j]
        IN d.stage \in {"not_in_dict", "refused", "merged"} =>
              LET c == WindowCandidates(d.start_index, d.merge_len)
              IN /\ d.in_dawg <=> (IsEntry(c.candidate_lower) \/ NearEntry(c.candidate_lower))
                 /\ d.spaced_in_dawg <=> IsEntry(c.candidate_with_space_lower)

\* the text the scan has produced so far when nothing but the white space
\* inside merged windows is dropped: for each call the text between the
\* previous window and the start token, then the tokens of the window
RECURSIVE Copied(_)
Copied(k) ==
    IF k = 0 THEN <<>>
    ELSE LET c == calls[k]
             n == IF c.merged_count > 0 THEN c.merged_count ELSE 1
             prev_end == IF k = 1 THEN 0
                         ELSE token_matches[calls[k - 1].start_index
                                  + (IF calls[k - 1].merged_count > 0
                                     THEN calls[k - 1].merged_count ELSE 1)].end
         IN Copied(k - 1)
            \o Slice(text, prev_end, token_matches[c.start_index + 1].start)
            \o Flatten([t \in 1..n |-> as_str(text, token_matches[c.start_index + t])])

LTMatch(offset, length, replacements) ==
    [offset |-> offset, length |-> length, replacements |-> replacements]
RequestFailed == [ok |-> FALSE, matches |-> <<>>]
Answer(matches) == [ok |-> TRUE, matches |-> matches]

\* s.chars().count()
chars_count(s) == Len(s)

\* s.char_indices().nth(n).map(|(byte_idx, _)| byte_idx), with -1 for None
char_indices_nth(s, n) == IF n < Len(s) THEN ByteOff(s, n) ELSE -1

\* s.replace_range(start..end, with), byte offsets
replace_range(s, start, end, with) ==
    Slice(s, 0, start) \o with \o Slice(s, end, len(s))

\* matches.sort_by(|a, b| b.offset.cmp(&a.offset)): stable, descending offsets
RECURSIVE sort_by_offset_desc(_)
sort_by_offset_desc(matches) ==
    IF matches = <<>> THEN <<>>
    ELSE LET m == Head(matches)
             rest == sort_by_offset_desc(Tail(matches))
             before == SelectSeq(rest, LAMBDA x : x.offset > m.offset)
             after == SelectSeq(rest, LAMBDA x : x.offset <= m.offset)
         IN before \o <<m>> \o after

\* usize::MAX, with usize scaled down to 3 bits
UsizeMax == 7

\* a + b on usize as a release build computes it
wrapping_add(a, b) == (a + b) % (UsizeMax + 1)

\* `m.offset + m.length` overflows usize: a debug build panics there
add_overflows(m) == m.replacements # <<>> /\ m.offset + m.length > UsizeMax

\* the body of `for m in matches` with a match skipped when nth(m.offset) is None
apply_match_skips_out_of_range(corrected, m) ==
    IF m.replacements = <<>> \/ char_indices_nth(corrected, m.offset) = -1 THEN corrected
    ELSE LET s == char_indices_nth(corrected, m.offset)
             e == char_indices_nth(corrected, wrapping_add(m.offset, m.length))
             start == IF s = -1 THEN 0 ELSE s
             end == IF e = -1 THEN len(corrected) ELSE e
         IN replace_range(corrected, start, end, m.replacements[1])

\* the body of `for m in matches`
apply_match(corrected, m) ==
    IF m.replacements = <<>> THEN corrected
    ELSE LET s == char_indices_nth(corrected, m.offset)
             e == char_indices_nth(corrected, wrapping_add(m.offset, m.length))
             start == IF s = -1 THEN 0 ELSE s
             end == IF e = -1 THEN len(corrected) ELSE e
         IN replace_range(corrected, start, end, m.replacements[1])

RECURSIVE apply_matches(_, _)
apply_matches(corrected, matches) ==
    IF matches = <<>> THEN corrected
    ELSE apply_matches(apply_match(corrected, Head(matches)), Tail(matches))

\* burt_correct_text for a successful answer
burt_correct_text(txt, matches) == apply_matches(txt, sort_by_offset_desc(matches))

(***************************************************************************)
(* burt_correct_text as a state machine: the request and the sort, one     *)
(* action per iteration of `for m in matches`, and the return.             *)
(***************************************************************************)
MaxTextChars == 2    \* longest text given to burt_correct_text, in characters
MaxMatches == 2      \* longest list of matches in an answer

BurtChars == {"a", "egrave"}
BurtTexts == UNION {[1..n -> BurtChars] : n \in 0..MaxTextChars}
\* the replacement lists of a match: none, one value, an empty value first
ReplacementLists == {<<>>, << <<"b">> >>, << <<>>, <<"b">> >>}
LTMatches ==
    {LTMatch(o, l, r) : o \in 0..MaxTextChars \cup {UsizeMax}, l \in 0..MaxTextChars,
                        r \in ReplacementLists}
BurtAnswers ==
    {RequestFailed} \cup {Answer(ms) : ms \in UNION {[1..n -> LTMatches] : n \in 0..MaxMatches}}

InitBurt ==
    /\ bt_text \in BurtTexts
    /\ bt_answer = Answer(<<>>)
    /\ bt_queue = <<>>
    /\ bt_corrected = <<>>
    /\ bt_prev = <<>>
    /\ bt_last = LTMatch(0, 0, <<>>)
    /\ bt_pc = "request"
    /\ MergeIdle
    /\ CeIdle
    /\ FbmIdle
    /\ CleanIdle
    /\ MainIdle
    /\ CfgIdle

\* the request, the parse of the body, `corrected = text.to_string()` and the sort
BurtRequest ==
    /\ bt_pc = "request"
    /\ \E answer \in BurtAnswers :
          /\ bt_answer' = answer
          /\ IF answer.ok
             THEN /\ bt_corrected' = bt_text
                  /\ bt_queue' = sort_by_offset_desc(answer.matches)
                  /\ bt_pc' = "loop"
             ELSE /\ bt_pc' = "panicked"
                  /\ UNCHANGED <<bt_corrected, bt_queue>>
    /\ UNCHANGED <<bt_text, bt_prev, bt_last, not_burt_vars>>

\* one iteration of `for m in matches`; when m.offset + m.length overflows,
\* the build decides: a panic (overflow checks on) or the wrapped sum
BurtApply ==
    /\ bt_pc = "loop"
    /\ bt_queue # <<>>
    /\ \E overflow_checks \in BOOLEAN :
          IF add_overflows(Head(bt_queue)) /\ overflow_checks
          THEN /\ bt_pc' = "panicked"
               /\ UNCHANGED <<bt_corrected, bt_queue>>
          ELSE /\ bt_corrected' = apply_match(bt_corrected, Head(bt_queue))
               /\ bt_queue' = Tail(bt_queue)
               /\ bt_pc' = bt_pc
    /\ bt_prev' = bt_corrected
    /\ bt_last' = Head(bt_queue)
    /\ UNCHANGED <<bt_text, bt_answer, not_burt_vars>>

\* `corrected` is returned
BurtReturn ==
    /\ bt_pc = "loop"
    /\ bt_queue = <<>>
    /\ bt_pc' = "done"
    /\ UNCHANGED <<bt_text, bt_answer, bt_queue, bt_corrected, bt_prev, bt_last,
                   not_burt_vars>>

NextBurt == BurtRequest \/ BurtApply \/ BurtReturn

SpecBurt == InitBurt /\ [][NextBurt]_vars

\* s with the characters at positions [offset, offset + length) replaced by with
ReplaceChars(s, offset, length, with) ==
    SubSeq(s, 1, offset) \o with \o SubSeq(s, offset + length + 1, Len(s))

\* the latest iteration applied a match with a replacement
Applied == bt_pc \in {"loop", "done"} /\ bt_last.replacements # <<>>

\* C12: a match whose offset + length does not exceed the number of
\* characters of the current text replaces exactly the characters at
\* positions [offset, offset + length) by the first replacement, whatever
\* the width in bytes of the characters before it.
C12_OffsetConversion ==
    (Applied /\ bt_last.offset + bt_last.length <= chars_count(bt_prev)) =>
        bt_corrected = ReplaceChars(bt_prev, bt_last.offset, bt_last.length,
                                 bt_last.replacements[1])

\* the latest iteration reached a match with a replacement
Attempted == bt_pc \in {"loop", "done", "panicked"} /\ bt_last.replacements # <<>>

InRange(s, ms) == \A k \in 1..Len(ms) : ms[k].offset + ms[k].length <= chars_count(s)

\* two matches have a character in common, or the same range
Overlap(m1, m2) ==
    \/ m1.offset < m2.offset + m2.length /\ m2.offset < m1.offset + m1.length
    \/ m1.offset = m2.offset /\ m1.length = m2.length
    \/ m1.length = 0 /\ m2.offset < m1.offset /\ m1.offset < m2.offset + m2.length
    \/ m2.length = 0 /\ m1.offset < m2.offset /\ m2.offset < m1.offset + m1.length

PairwiseNonOverlapping(ms) ==
    \A a, b \in 1..Len(ms) : a # b => ~Overlap(ms[a], ms[b])

\* all matched ranges of s replaced at once, reading s from position p on
RECURSIVE Simultaneous(_, _, _)
Simultaneous(s, ms, p) ==
    LET eff == SelectSeq(ms, LAMBDA m : m.replacements # <<>> /\ m.offset = p)
        ins == SelectSeq(eff, LAMBDA m : m.length = 0)
        rng == SelectSeq(eff, LAMBDA m : m.length > 0)
        inserted == Flatten([k \in 1..Len(ins) |-> ins[k].replacements[1]])
    IN IF p >= Len(s) THEN inserted
       ELSE IF rng # <<>>
            THEN inserted \o rng[1].replacements[1]
                          \o Simultaneous(s, ms, p + rng[1].length)
            ELSE inserted \o <<s[p + 1]>> \o Simultaneous(s, ms, p + 1)

\* C13: for pairwise non-overlapping in-range matches in any order of the
\* answer, the returned text is the original text with all matched ranges
\* replaced at once; a match without replacement changes nothing.
C13_ReplacementOrder ==
    (/\ bt_pc = "done"
     /\ InRange(bt_text, bt_answer.matches)
     /\ PairwiseNonOverlapping(bt_answer.matches)) =>
        bt_corrected = Simultaneous(bt_text, bt_answer.matches, 0)

(***************************************************************************)
(* whisper_integration.rs: clean_whisper_text.                             *)
(***************************************************************************)
BEG == <<"[", "_", "B", "E", "G", "_", "]">>
TTPrefix == <<"[", "_", "T", "T", "_">>

\* \d+ at the head of s: the length of the run of digits
RECURSIVE DigitRun(_)
DigitRun(s) == IF s # <<>> /\ Head(s) \in Digits THEN 1 + DigitRun(Tail(s)) ELSE 0

\* \s+ at the head of s: the length of the run of white space
RECURSIVE SpaceRun(_)
SpaceRun(s) == IF s # <<>> /\ Head(s) \in Whitespace THEN 1 + SpaceRun(Tail(s)) ELSE 0

\* length of the match of \[_BEG_\] at the head of s, 0 when there is none
re_beg(s) == IF Len(s) >= Len(BEG) /\ SubSeq(s, 1, Len(BEG)) = BEG THEN Len(BEG) ELSE 0

\* length of the match of \[_TT_\d+\] at the head of s, 0 when there is none
re_tt(s) ==
    IF Len(s) >= Len(TTPrefix) /\ SubSeq(s, 1, Len(TTPrefix)) = TTPrefix
    THEN LET d == DigitRun(SubSeq(s, Len(TTPrefix) + 1, Len(s)))
             close == Len(TTPrefix) + d + 1
         IN IF d >= 1 /\ close <= Len(s) /\ s[close] = "]" THEN close ELSE 0
    ELSE 0

\* length of the match of \s+ at the head of s, 0 when there is none
re_spaces(s) == SpaceRun(s)

\* length of the match of the regex at the head of s, 0 when there is none
re_match(re, s) ==
    CASE re = "re_beg" -> re_beg(s)
      [] re = "re_tt" -> re_tt(s)
      [] OTHER -> re_spaces(s)

\* Regex::replace_all: leftmost matches, left to right, not overlapping
RECURSIVE replace_all(_, _, _)
replace_all(re, s, rep) ==
    IF s = <<>> THEN <<>>
    ELSE LET n == re_match(re, s)
         IN IF n > 0 THEN rep \o replace_all(re, SubSeq(s, n + 1, Len(s)), rep)
            ELSE <<Head(s)>> \o replace_all(re, Tail(s), rep)

\* str::trim
RECURSIVE trim_start(_)
trim_start(s) == IF s # <<>> /\ is_whitespace(Head(s)) THEN trim_start(Tail(s)) ELSE s
RECURSIVE trim_end(_)
trim_end(s) ==
    IF s # <<>> /\ is_whitespace(s[Len(s)]) THEN trim_end(SubSeq(s, 1, Len(s) - 1)) ELSE s
trim(s) == trim_end(trim_start(s))

\* the three replace_all calls of clean_whisper_text
strip_tags(s) ==
    replace_all("re_spaces",
                replace_all("re_tt", replace_all("re_beg", s, <<>>), <<>>), <<" ">>)

(***************************************************************************)
(* clean_whisper_text as a state machine: the tag and white-space          *)
(* replacements, the call of burt_correct_text on the trimmed text, the    *)
(* call of merge_separated_words_dawg_regex(&lang_tooled, 2) (the loop     *)
(* actions above), and the return.                                         *)
(***************************************************************************)
MaxPieces == 3       \* longest raw text, in pieces

TT9 == <<"[", "_", "T", "T", "_", "9", "]">>
Pieces ==
    {BEG, TT9, <<"[", "_", "B">>, <<"E", "G", "_", "]">>, <<" ">>, <<"tab">>, <<"a">>}
\* main.rs, test_clean_whisper_text_removes_tags_and_extra_spaces (shortened words)
TestTagged ==
    <<"u", "n", " ">> \o BEG \o <<"a", " ">> \o <<"[", "_", "T", "T", "_", "9", "9", "]">>
        \o <<"b", " ", " ", " ", "e", "t", " ", " ", " ", "b", ".">>
RawTexts ==
    {Flatten(ps) : ps \in UNION {[1..n -> Pieces] : n \in 0..MaxPieces}} \cup {TestTagged}

CleanDictionaries ==
    { [fr |-> {}, en |-> {}],
      [fr |-> {<<"a", "a">>}, en |-> {<<"b", "e", "g">>}] }

\* what the grammar service can answer for the text t
GrammarAnswers(t) ==
    {RequestFailed, Answer(<<>>), Answer(<<LTMatch(0, 1, <<>>)>>),
     Answer(<<LTMatch(0, 1, << <<"B">> >>)>>)}

InitClean ==
    /\ raw \in RawTexts
    /\ clean = <<>>
    /\ lang_tooled = <<>>
    /\ lt_response = Answer(<<>>)
    /\ cw_ret = <<>>
    /\ cw_pc = "strip"
    /\ text = <<>> /\ max_merge = 0 /\ DAWGS \in CleanDictionaries
    /\ token_matches = <<>> /\ i = 0 /\ last_end = 0 /\ result = <<>>
    /\ decisions = <<>> /\ calls = <<>> /\ pc = "idle"
    /\ CeIdle
    /\ FbmIdle
    /\ BurtIdle
    /\ MainIdle
    /\ CfgIdle

\* re_beg.replace_all, re_tt.replace_all, the \s+ replace_all
CleanStrip ==
    /\ cw_pc = "strip"
    /\ clean' = strip_tags(raw)
    /\ cw_pc' = "correct"
    /\ UNCHANGED <<raw, lang_tooled, lt_response, cw_ret, merge_vars, not_clean_vars>>

\* let lang_tooled = burt_correct_text(clean.trim()); and the entry into
\* merge_separated_words_dawg_regex(&lang_tooled, 2)
CleanCorrect ==
    /\ cw_pc = "correct"
    /\ \E answer \in GrammarAnswers(trim(clean)) :
          /\ lt_response' = answer
          /\ IF answer.ok
             THEN LET corrected == burt_correct_text(trim(clean), answer.matches)
                  IN /\ lang_tooled' = corrected
                     /\ text' = corrected
                     /\ max_merge' = 2
                     /\ token_matches' = get_token_matches(corrected)
                     /\ pc' = "loop"
                     /\ cw_pc' = "merge"
             ELSE /\ cw_pc' = "panicked"
                  /\ UNCHANGED <<lang_tooled, text, max_merge, token_matches, pc>>
    /\ UNCHANGED <<raw, clean, cw_ret, DAWGS, i, last_end, result, decisions, calls,
                   not_clean_vars>>

\* the value of merge_separated_words_dawg_regex is returned
CleanReturn ==
    /\ cw_pc = "merge"
    /\ pc = "done"
    /\ cw_ret' = result
    /\ cw_pc' = "done"
    /\ UNCHANGED <<raw, clean, lang_tooled, lt_response, merge_vars, not_clean_vars>>

NextClean == CleanStrip \/ CleanCorrect \/ LoopMerge \/ LoopCopy \/ LoopExit \/ CleanReturn

SpecClean == InitClean /\ [][NextClean]_vars

\* s holds no begin marker, no numbered tag and no two consecutive spaces
TagFree(s) ==
    /\ ~Contains(s, BEG)
    /\ ~(\E p \in 1..Len(s) : re_tt(SubSeq(s, p, Len(s))) > 0)
    /\ ~Contains(s, <<" ", " ">>)

\* C11: the text left by the tag and white-space replacements, and the
\* returned text when the grammar service answers with no replacement,
\* holds no "[_BEG_]", no "[_TT_<digits>]" and no two consecutive spaces.
C11_TagSpaceCleanup ==
    /\ cw_pc \in {"correct", "merge", "done", "panicked"} => TagFree(clean)
    /\ (cw_pc = "done" /\ lt_response = Answer(<<>>)) => TagFree(cw_ret)

\* C14: when the request to the grammar service fails, clean_whisper_text
\* goes on with the unmodified cleaned text instead of ending the session.
C14_GrammarDegradation ==
    (cw_pc # "correct" /\ cw_pc # "strip" /\ ~lt_response.ok) =>
        /\ cw_pc \in {"merge", "done"}
        /\ lang_tooled = trim(clean)

(***************************************************************************)
(* main.rs: the start-up sequence and the main audio loop, with the        *)
(* blocking tasks of wakeword::is_wake_word_present and                    *)
(* config::execute_command.  The runtime is a current-thread runtime: the  *)
(* main thread is the event loop's thread, a spawn_blocking closure runs   *)
(* on a worker thread, and the audio callback runs on the capture thread.  *)
(***************************************************************************)
MaxSegments == 2     \* number of segments the capture side produces
MaxPlausCalls == 2   \* most check_word_with_bert calls in one clean_whisper_text

\* the two statics built by Lazy::new(|| dawg_loader::load_dawgs())
MainDAWGS == "main::DAWGS"
EngineDAWGS == "whisper_integration::DAWGS"

\* Lazy::force on a static: the initialiser runs on the first access only
force(log, static) ==
    IF \E k \in 1..Len(log) : log[k] = static THEN log ELSE Append(log, static)

\* what is known of a fixed string after n more calls of encode_sentence
\* on it: never encoded, encoded once, encoded again
passed(before, n) ==
    CASE n = 0 -> before
      [] n = 1 /\ before = "never" -> "once"
      [] OTHER -> "again"

\* the first access to WAKE_VARIANTS_EMBEDDINGS encodes every wake variant
force_wake_variants(enc) ==
    IF enc.wake = "never" THEN [enc EXCEPT !.wake = passed(@, 1)] ELSE enc

\* clean_whisper_text as far as the dictionaries and the reference
\* sentences go: check_in_dawg reads DAWGS of whisper_integration.rs, and
\* every check_word_with_bert call encodes the reference sentences
engine_log(log, looked_up) == IF looked_up THEN force(log, EngineDAWGS) ELSE log
engine_encoded(enc, plaus_calls) == [enc EXCEPT !.reference = passed(@, plaus_calls)]

\* dawg_loader::DICTIONARIES
Languages == {"fr", "en"}
\* what load_dawgs meets for a language: a cached file, a download, a
\* resource that can be neither read nor downloaded, a failing automaton build
ResourceStates == {"cached", "downloaded", "unavailable", "unbuildable"}
Obtainable(r) == r \in {"cached", "downloaded"}

NoTask == [kind |-> "none", seg |-> 0, status |-> "idle", ret |-> "none"]
Running(kind, n) == [kind |-> kind, seg |-> n, status |-> "running", ret |-> "none"]
Finished(t, ret) == [t EXCEPT !.status = "finished", !.ret = ret]
\* the closure panicked: the JoinHandle resolves to a JoinError
Panicked(t) == [t EXCEPT !.status = "panicked", !.ret = "err"]

Ev(n, step, thread) == [seg |-> n, step |-> step, thread |-> thread]

\* the positions of the main thread inside `loop { ... }`
LoopPcs ==
    {"next_segment", "wake_full", "wake_spawn", "wake_await", "transcribe",
     "dispatch_spawn", "dispatch_await"}

InitMain ==
    /\ m_pc = "load_dawgs"
    /\ awake = FALSE
    /\ seg = 0
    /\ captured = 0
    /\ channel = <<>>
    /\ resources \in [Languages -> ResourceStates]
    /\ main_dawgs = {}
    /\ load_log = <<>>
    /\ encoded = [wake |-> "never", triggers |-> "never", reference |-> "never"]
    /\ task = NoTask
    /\ trace = <<>>
    /\ MergeIdle
    /\ CeIdle
    /\ FbmIdle
    /\ CleanIdle
    /\ BurtIdle
    /\ CfgIdle

\* main.rs line 18 without the access to DAWGS: nothing is loaded at start-up
MainLoadDawgs_NotForced ==
    /\ m_pc = "load_dawgs"
    /\ m_pc' = "start_server"
    /\ UNCHANGED <<awake, seg, captured, channel, resources, main_dawgs, load_log, encoded, task, trace,
                   not_main_vars>>

\* main.rs line 18: DAWGS.0.len() forces the Lazy, which runs load_dawgs;
\* every failure in load_dawgs is an expect
MainLoadDawgs ==
    /\ m_pc = "load_dawgs"
    /\ IF \A lang \in Languages : Obtainable(resources[lang])
       THEN main_dawgs' = Languages /\ m_pc' = "start_server"
       ELSE main_dawgs' = {} /\ m_pc' = "aborted"
    /\ load_log' = force(load_log, MainDAWGS)
    /\ UNCHANGED <<awake, seg, captured, channel, resources, encoded, task, trace, not_main_vars>>

\* start_languagetool_server and bert::get_model: each failure is an expect;
\* the build of the runtime: an Err ends main
MainStartServices ==
    /\ m_pc = "start_server"
    /\ \E ok \in BOOLEAN : m_pc' = IF ok THEN "init_model" ELSE "aborted"
    /\ UNCHANGED <<awake, seg, captured, channel, resources, main_dawgs, load_log, encoded, task, trace,
                   not_main_vars>>

\* init_model, load_config: Err is exit(1), a duplicate trigger panics
MainInitModelAndConfig ==
    /\ m_pc = "init_model"
    /\ \E ok \in BOOLEAN : m_pc' = IF ok THEN "start_capture" ELSE "aborted"
    /\ UNCHANGED <<awake, seg, captured, channel, resources, main_dawgs, load_log, encoded, task, trace,
                   not_main_vars>>

\* get_device, start_capture (both expect), `let mut awake = false;`
MainStartCapture ==
    /\ m_pc = "start_capture"
    /\ \E ok \in BOOLEAN : m_pc' = IF ok THEN "next_segment" ELSE "aborted"
    /\ awake' = FALSE
    /\ UNCHANGED <<seg, captured, channel, resources, main_dawgs, load_log, encoded, task, trace,
                   not_main_vars>>

\* audio.rs: the capture callback sends what get_next_speech_segment will
\* return: speech, a segment of fewer than 1000 samples, or an error
Capture ==
    /\ m_pc \in LoopPcs
    /\ captured < MaxSegments
    /\ \E kind \in {"speech", "short", "err"} :
          channel' = Append(channel, [id |-> captured + 1, kind |-> kind])
    /\ captured' = captured + 1
    /\ UNCHANGED <<m_pc, awake, seg, resources, main_dawgs, load_log, encoded, task, trace, not_main_vars>>

\* lines 108-118: get_next_speech_segment().await and the length test
MainNextSegment ==
    /\ m_pc = "next_segment"
    /\ channel # <<>>
    /\ seg' = Head(channel).id
    /\ channel' = Tail(channel)
    /\ trace' = Append(trace, Ev(Head(channel).id, "segment", "event_loop"))
    /\ m_pc' = IF Head(channel).kind = "speech" THEN "wake_full" ELSE "next_segment"
    /\ UNCHANGED <<awake, captured, resources, main_dawgs, load_log, encoded, task, not_main_vars>>

\* lines 120-131: create_state().expect and wake_state.full
MainWakeFull ==
    /\ m_pc = "wake_full"
    /\ \E outcome \in {"panic", "err", "ok"} :
          m_pc' = CASE outcome = "panic" -> "aborted"
                    [] outcome = "err" -> "next_segment"
                    [] OTHER -> "wake_spawn"
    /\ trace' = Append(trace, Ev(seg, "wake_full", "event_loop"))
    /\ UNCHANGED <<awake, seg, captured, channel, resources, main_dawgs, load_log, encoded, task,
                   not_main_vars>>

\* wakeword.rs lines 146-147: spawn_blocking
MainWakeSpawn ==
    /\ m_pc = "wake_spawn"
    /\ task' = Running("wake", seg)
    /\ m_pc' = "wake_await"
    /\ UNCHANGED <<awake, seg, captured, channel, resources, main_dawgs, load_log, encoded, trace,
                   not_main_vars>>

\* wakeword.rs lines 107-136: is_wake_word_present_sync on the worker thread.
\* looked_up: the merge engine reached check_in_dawg for some window;
\* plaus_calls: the number of check_word_with_bert calls of the merge engine.
WorkerWake ==
    /\ task.kind = "wake"
    /\ task.status = "running"
    /\ \E outcome \in {"text_err", "grammar_panic", "encode_err", "true", "false"},
          looked_up \in BOOLEAN, plaus_calls \in 0..MaxPlausCalls :
          LET merged == plaus_calls > 0
              detect == <<Ev(task.seg, "wake_detect", "worker")>>
              plaus == IF merged THEN <<Ev(task.seg, "encode", "worker")>> ELSE <<>>
              enc == <<Ev(task.seg, "encode", "worker")>>
          IN /\ merged => looked_up
             /\ CASE outcome = "text_err" ->
                    /\ ~looked_up
                    /\ task' = Finished(task, "err")
                    /\ trace' = trace \o detect
                    /\ UNCHANGED <<load_log, encoded>>
               [] outcome = "grammar_panic" ->
                    /\ ~looked_up
                    /\ task' = Panicked(task)
                    /\ trace' = trace \o detect
                    /\ UNCHANGED <<load_log, encoded>>
               [] outcome = "encode_err" ->
                    /\ task' = Finished(task, "err")
                    /\ trace' = trace \o detect \o plaus \o enc
                    /\ load_log' = engine_log(load_log, looked_up)
                    /\ encoded' = engine_encoded(encoded, plaus_calls)
               [] OTHER ->
                    /\ task' = Finished(task, outcome)
                    /\ trace' = trace \o detect \o plaus \o enc
                    /\ load_log' = engine_log(load_log, looked_up)
                    /\ encoded' = force_wake_variants(engine_encoded(encoded, plaus_calls))
    /\ UNCHANGED <<m_pc, awake, seg, captured, channel, resources, main_dawgs,
                   not_main_vars>>

\* the test `if !awake` made on the value awake had before the match
MainWakeAwait_ReadBeforeFlip ==
    /\ m_pc = "wake_await"
    /\ task.status \in {"finished", "panicked"}
    /\ awake' = IF task.ret = "true" THEN ~awake ELSE awake
    /\ trace' = trace \o (IF task.ret = "true"
                          THEN <<Ev(seg, "awake_write", "event_loop")>> ELSE <<>>)
                      \o <<Ev(seg, "awake_read", "event_loop")>>
    /\ m_pc' = IF awake THEN "transcribe" ELSE "next_segment"
    /\ task' = NoTask
    /\ UNCHANGED <<seg, captured, channel, resources, main_dawgs, load_log, encoded, not_main_vars>>

\* lines 133-143: the await of the task, the match on its value, `if !awake`
MainWakeAwait ==
    /\ m_pc = "wake_await"
    /\ task.status \in {"finished", "panicked"}
    /\ awake' = IF task.ret = "true" THEN ~awake ELSE awake
    /\ trace' = trace \o (IF task.ret = "true"
                          THEN <<Ev(seg, "awake_write", "event_loop")>> ELSE <<>>)
                      \o <<Ev(seg, "awake_read", "event_loop")>>
    /\ m_pc' = IF awake' THEN "transcribe" ELSE "next_segment"
    /\ task' = NoTask
    /\ UNCHANGED <<seg, captured, channel, resources, main_dawgs, load_log, encoded, not_main_vars>>

\* lines 147-157: transcribe(...).await, which runs create_state, full and
\* clean_whisper_text in the calling task, and the is_empty test
MainTranscribe ==
    /\ m_pc = "transcribe"
    /\ \E outcome \in {"err", "grammar_panic", "empty", "text"},
          looked_up \in BOOLEAN, plaus_calls \in 0..MaxPlausCalls :
          LET merged == plaus_calls > 0
              start == <<Ev(seg, "transcribe", "event_loop")>>
              plaus == IF merged THEN <<Ev(seg, "encode", "event_loop")>> ELSE <<>>
          IN /\ merged => looked_up
             /\ CASE outcome = "err" ->
                    /\ ~looked_up
                    /\ m_pc' = "next_segment"
                    /\ trace' = trace \o start
                    /\ UNCHANGED <<load_log, encoded>>
               [] outcome = "grammar_panic" ->
                    /\ ~looked_up
                    /\ m_pc' = "aborted"
                    /\ trace' = trace \o start
                    /\ UNCHANGED <<load_log, encoded>>
               [] outcome = "empty" ->
                    /\ ~looked_up
                    /\ m_pc' = "next_segment"
                    /\ trace' = trace \o start
                    /\ UNCHANGED <<load_log, encoded>>
               [] OTHER ->
                    /\ m_pc' = "dispatch_spawn"
                    /\ trace' = trace \o start \o plaus
                    /\ load_log' = engine_log(load_log, looked_up)
                    /\ encoded' = engine_encoded(encoded, plaus_calls)
    /\ UNCHANGED <<awake, seg, captured, channel, resources, main_dawgs, task,
                   not_main_vars>>

\* config.rs line 75: spawn_blocking
MainDispatchSpawn ==
    /\ m_pc = "dispatch_spawn"
    /\ task' = Running("dispatch", seg)
    /\ m_pc' = "dispatch_await"
    /\ UNCHANGED <<awake, seg, captured, channel, resources, main_dawgs, load_log, encoded, trace,
                   not_main_vars>>

\* config.rs lines 78-100: the closure on the worker thread: find_best_match,
\* then execute_action or execute_enigo_text.  find_best_match encodes the
\* transcription and then every trigger (bert.rs lines 54-61); triggers_reached:
\* the encoding of the transcription succeeded.
WorkerDispatch ==
    /\ task.kind = "dispatch"
    /\ task.status = "running"
    /\ \E outcome \in {"match_err", "panic", "command", "typed"},
          triggers_reached \in BOOLEAN :
          /\ outcome # "match_err" => triggers_reached
          /\ encoded' = IF triggers_reached
                        THEN [encoded EXCEPT !.triggers = passed(@, 1)] ELSE encoded
          /\ task' = CASE outcome = "match_err" -> Finished(task, "err")
                       [] outcome = "panic" -> Panicked(task)
                       [] OTHER -> Finished(task, "ok")
          /\ trace' = trace \o <<Ev(task.seg, "encode", "worker")>>
                            \o (IF outcome \in {"command", "typed"}
                                THEN <<Ev(task.seg, "dispatch", "worker")>> ELSE <<>>)
    /\ UNCHANGED <<m_pc, awake, seg, captured, channel, resources, main_dawgs, load_log,
                   not_main_vars>>

\* the await of the handle proceeding although the task has not finished
MainDispatchAwait_Detached ==
    /\ m_pc = "dispatch_await"
    /\ m_pc' = "next_segment"
    /\ task' = IF task.status = "running" THEN task ELSE NoTask
    /\ UNCHANGED <<awake, seg, captured, channel, resources, main_dawgs, load_log, encoded, trace,
                   not_main_vars>>

\* config.rs lines 104-109, main.rs lines 163-169: handle.await and the match
MainDispatchAwait ==
    /\ m_pc = "dispatch_await"
    /\ task.status \in {"finished", "panicked"}
    /\ m_pc' = "next_segment"
    /\ task' = NoTask
    /\ UNCHANGED <<awake, seg, captured, channel, resources, main_dawgs, load_log, encoded, trace,
                   not_main_vars>>

NextMain ==
    \/ MainLoadDawgs \/ MainStartServices \/ MainInitModelAndConfig \/ MainStartCapture
    \/ Capture \/ MainNextSegment \/ MainWakeFull \/ MainWakeSpawn \/ WorkerWake
    \/ MainWakeAwait \/ MainTranscribe \/ MainDispatchSpawn \/ WorkerDispatch
    \/ MainDispatchAwait

SpecMain == InitMain /\ [][NextMain]_vars

\* C15: when the word list of some language can be neither read nor
\* downloaded, or its automaton cannot be built, the process aborts before
\* the main loop; the loop is only entered with every language loaded.
C15_DictionaryFailureFatal ==
    /\ (\E lang \in Languages : ~Obtainable(resources[lang])) => m_pc \notin LoopPcs
    /\ m_pc \in LoopPcs => main_dawgs = Languages

C15_Witness ==
    /\ resources = [fr |-> "cached", en |-> "unavailable"]
    /\ m_pc = "aborted"
    /\ main_dawgs = {}
    /\ captured = 0

\* C19: no call of encode_sentence runs on the event loop's thread.
C19_EncodeOffEventLoop ==
    \A k \in 1..Len(trace) : trace[k].step = "encode" => trace[k].thread = "worker"

\* the place of a step in the handling of one segment
Rank(step) ==
    CASE step = "segment" -> 0
      [] step = "wake_full" -> 1
      [] step = "wake_detect" -> 2
      [] step = "awake_write" -> 3
      [] step = "awake_read" -> 4
      [] step = "transcribe" -> 5
      [] step = "dispatch" -> 6
      [] OTHER -> 7

\* C20: segments are handled in capture order and never interleaved: every
\* step of a segment happens before any step of the next one, the steps of
\* one segment happen in the order of the loop body, a blocking task runs
\* only while the main thread awaits it, and awake is read and written by
\* the main thread between the wake-word step and the transcription step.
C20_StrictOrder ==
    /\ \A a, b \in 1..Len(trace) : a < b => trace[a].seg <= trace[b].seg
    /\ \A a, b \in 1..Len(trace) :
          (/\ a < b
           /\ trace[a].seg = trace[b].seg
           /\ trace[a].step # "encode"
           /\ trace[b].step # "encode") => Rank(trace[a].step) < Rank(trace[b].step)
    /\ task.status = "running" =>
          m_pc \in {"wake_await", "dispatch_await"} /\ task.seg = seg
    /\ \A k \in 1..Len(trace) :
          trace[k].step \in {"awake_write", "awake_read"} => trace[k].thread = "event_loop"

C20_Witness ==
    /\ \E k \in 1..Len(trace) : trace[k] = Ev(1, "dispatch", "worker")
    /\ \E k \in 1..Len(trace) : trace[k] = Ev(2, "awake_write", "event_loop")
    /\ channel = <<>>
    /\ ~awake

\* C21: each dictionary is built exactly once per process and every caller
\* reads that one instance: load_dawgs runs at most once, and the only
\* instance ever built is the one forced at start-up in main, which is
\* then the one check_in_dawg reads.
C21_SingleDictionaryInstance ==
    /\ Len(load_log) <= 1
    /\ \A k \in 1..Len(load_log) : load_log[k] = MainDAWGS

\* C22: each wake-word variant, each trigger phrase and each plausibility
\* reference sentence is passed to encode_sentence at most once per process.
C22_ReferenceEmbeddingsCached ==
    /\ encoded.wake # "again"
    /\ encoded.triggers # "again"
    /\ encoded.reference # "again"

\* awake after the wake-word check of segment n, counted from the trace:
\* false at the start and flipped by every write up to that segment
AwakeAfter(n) ==
    Cardinality({k \in 1..Len(trace) :
                    trace[k].step = "awake_write" /\ trace[k].seg <= n}) % 2 = 1

\* a segment is transcribed and dispatched only if awake is true after its
\* own wake-word check, and a segment whose check leaves awake true goes on
\* to the transcription
DispatchOnlyWhileAwake ==
    /\ awake = AwakeAfter(captured)
    /\ m_pc \in {"transcribe", "dispatch_spawn", "dispatch_await"} => awake
    /\ \A k \in 1..Len(trace) :
          /\ trace[k].step \in {"transcribe", "dispatch"} =>
                /\ AwakeAfter(trace[k].seg)
                /\ \E r \in 1..(k - 1) :
                      trace[r] = Ev(trace[k].seg, "awake_read", "event_loop")
          /\ trace[k].step = "awake_read" =>
                IF AwakeAfter(trace[k].seg)
                THEN IF k = Len(trace) THEN m_pc = "transcribe"
                     ELSE trace[k + 1] = Ev(trace[k].seg, "transcribe", "event_loop")
                ELSE \A r \in 1..Len(trace) :
                        trace[r].seg = trace[k].seg =>
                            trace[r].step \notin {"transcribe", "dispatch"}

\* awake changes exactly in the step that receives Ok(true) from the
\* wake-word task
FlippedOnTrueOnly ==
    [][(awake' # awake) <=>
          (/\ m_pc = "wake_await"
           /\ task.kind = "wake"
           /\ task.ret = "true"
           /\ task' = NoTask)]_vars

\* C28: awake starts false, is flipped exactly when the wake-word detection
\* of a segment returns true and is left alone when it returns false or an
\* error; a segment is transcribed and dispatched only if awake is true
\* after its own check, so the segment that switches the system on goes on
\* to transcription and dispatch and the one that switches it off does not.
C28_DispatchOnlyWhileAwake ==
    /\ []DispatchOnlyWhileAwake
    /\ FlippedOnTrueOnly

\* C28 witness: the wake word of segment 1 switched the system on and
\* segment 1 was dispatched; the wake word of segment 2 switched it off and
\* segment 2 was not transcribed.
C28_Witness ==
    /\ m_pc = "next_segment"
    /\ ~awake
    /\ \E a, b, c \in 1..Len(trace) :
          /\ trace[a] = Ev(1, "awake_write", "event_loop")
          /\ trace[b] = Ev(1, "dispatch", "worker")
          /\ trace[c] = Ev(2, "awake_write", "event_loop")
    /\ \A k \in 1..Len(trace) : trace[k].seg = 2 => trace[k].step # "transcribe"

(***************************************************************************)
(* config.rs: load_config, one action per iteration of `for path in paths` *)
(* and one for the code after the loop.  A file is unreadable, unparsable, *)
(* or a list of commands.                                                  *)
(***************************************************************************)
MaxPaths == 2        \* longest list of paths
MaxCommands == 2     \* most commands in one file

Triggers == {<<"a">>, <<"b">>, <<"B">>}
Command(trigger) == [trigger |-> trigger, action |-> <<"l", "s">>]
Unreadable == [kind |-> "unreadable", commands |-> <<>>]
Unparsable == [kind |-> "unparsable", commands |-> <<>>]
ConfigFile(commands) == [kind |-> "config", commands |-> commands]
ConfigFiles ==
    {Unreadable, Unparsable}
        \cup {ConfigFile([k \in 1..n |-> Command(ts[k])]) :
                n \in 0..MaxCommands, ts \in [1..MaxCommands -> Triggers]}

\* the loop over config.commands with the trigger inserted as written
RECURSIVE insert_triggers_as_written(_, _)
insert_triggers_as_written(seen, commands) ==
    IF commands = <<>> THEN [seen |-> seen, duplicate |-> FALSE]
    ELSE LET trigger_lower == Head(commands).trigger
         IN IF trigger_lower \in seen THEN [seen |-> seen, duplicate |-> TRUE]
            ELSE insert_triggers_as_written(seen \cup {trigger_lower}, Tail(commands))

\* `for command in &config.commands`: seen_triggers.insert(trigger_lower),
\* stopping at the first trigger that is already there
RECURSIVE insert_triggers(_, _)
insert_triggers(seen, commands) ==
    IF commands = <<>> THEN [seen |-> seen, duplicate |-> FALSE]
    ELSE LET trigger_lower == to_lowercase(Head(commands).trigger)
         IN IF trigger_lower \in seen THEN [seen |-> seen, duplicate |-> TRUE]
            ELSE insert_triggers(seen \cup {trigger_lower}, Tail(commands))

InitLoadConfig ==
    /\ cfg_files \in UNION {[1..n -> ConfigFiles] : n \in 0..MaxPaths}
    /\ cfg_idx = 0
    /\ seen_triggers = {}
    /\ combined_config = <<>>
    /\ cfg_pc = "loop"
    /\ MergeIdle
    /\ CeIdle
    /\ FbmIdle
    /\ CleanIdle
    /\ BurtIdle
    /\ MainIdle

\* the loop with a file that cannot be read or parsed ending the call
LoadConfigPath_StopsAtBadFile ==
    /\ cfg_pc = "loop"
    /\ cfg_idx < Len(cfg_files)
    /\ LET file == cfg_files[cfg_idx + 1]
           r == insert_triggers(seen_triggers, file.commands)
       IN IF file.kind = "config"
          THEN /\ seen_triggers' = r.seen
               /\ IF r.duplicate
                  THEN cfg_pc' = "panicked" /\ UNCHANGED <<combined_config, cfg_idx>>
                  ELSE /\ combined_config' = combined_config \o file.commands
                       /\ cfg_idx' = cfg_idx + 1
                       /\ cfg_pc' = cfg_pc
          ELSE /\ cfg_pc' = "err"
               /\ UNCHANGED <<seen_triggers, combined_config, cfg_idx>>
    /\ UNCHANGED <<cfg_files, not_cfg_vars>>

\* one iteration of `for path in paths`
LoadConfigPath ==
    /\ cfg_pc = "loop"
    /\ cfg_idx < Len(cfg_files)
    /\ LET file == cfg_files[cfg_idx + 1]
           r == insert_triggers(seen_triggers, file.commands)
       IN IF file.kind = "config"
          THEN /\ seen_triggers' = r.seen
               /\ IF r.duplicate
                  THEN cfg_pc' = "panicked" /\ UNCHANGED <<combined_config, cfg_idx>>
                  ELSE /\ combined_config' = combined_config \o file.commands
                       /\ cfg_idx' = cfg_idx + 1
                       /\ cfg_pc' = cfg_pc
          ELSE /\ cfg_idx' = cfg_idx + 1
               /\ UNCHANGED <<seen_triggers, combined_config, cfg_pc>>
    /\ UNCHANGED <<cfg_files, not_cfg_vars>>

\* after the loop: Err for an empty configuration, Ok otherwise
LoadConfigReturn ==
    /\ cfg_pc = "loop"
    /\ cfg_idx = Len(cfg_files)
    /\ cfg_pc' = IF combined_config = <<>> THEN "err" ELSE "ok"
    /\ UNCHANGED <<cfg_files, cfg_idx, seen_triggers, combined_config, not_cfg_vars>>

NextLoadConfig == LoadConfigPath \/ LoadConfigReturn

SpecLoadConfig == InitLoadConfig /\ [][NextLoadConfig]_vars

\* the same characters up to the case of each letter
EqualIgnoringCase(s, t) ==
    /\ Len(s) = Len(t)
    /\ \A k \in 1..Len(s) : to_lowercase_char(s[k]) = to_lowercase_char(t[k])

HasDuplicateTriggers(commands) ==
    \E a, b \in 1..Len(commands) :
        a # b /\ EqualIgnoringCase(commands[a].trigger, commands[b].trigger)

\* the commands of the files that can be read and parsed, in path order
LoadableCommands ==
    Flatten([k \in 1..Len(cfg_files) |->
                IF cfg_files[k].kind = "config" THEN cfg_files[k].commands ELSE <<>>])

\* C16: load_config never returns Ok with two commands whose triggers are
\* equal ignoring case, from one file or from two; when the files hold such
\* a pair the call panics and returns nothing.
C16_DuplicateTriggersFatal ==
    /\ cfg_pc = "ok" => ~HasDuplicateTriggers(combined_config)
    /\ HasDuplicateTriggers(LoadableCommands) => cfg_pc \in {"loop", "panicked"}
    /\ cfg_pc = "panicked" => HasDuplicateTriggers(LoadableCommands)

C16_Witness ==
    /\ cfg_files = <<ConfigFile(<<Command(<<"b">>)>>), ConfigFile(<<Command(<<"a">>), Command(<<"B">>)>>)>>
    /\ cfg_pc = "panicked"
    /\ cfg_idx = 1
    /\ combined_config = <<Command(<<"b">>)>>

\* the commands of the first n files that can be read and parsed
LoadablePrefix(n) ==
    Flatten([k \in 1..n |->
                IF cfg_files[k].kind = "config" THEN cfg_files[k].commands ELSE <<>>])

\* C29: load_config skips every file that cannot be read or parsed without
\* affecting the other files; it returns Ok with the commands of all
\* readable and parsable files, in path order then in-file order, when
\* there is at least one command (and no duplicate trigger), and Err if
\* and only if there is none.
C29_PartialLoading ==
    /\ cfg_pc = "loop" => combined_config = LoadablePrefix(cfg_idx)
    /\ cfg_pc = "ok" => (combined_config = LoadableCommands /\ LoadableCommands # <<>>)
    /\ cfg_pc = "err" => LoadableCommands = <<>>
    /\ (cfg_pc # "loop" /\ ~HasDuplicateTriggers(LoadableCommands)) =>
          cfg_pc = (IF LoadableCommands = <<>> THEN "err" ELSE "ok")

\* C29 witness: an unparsable file before a configuration file is skipped
\* and the commands of the second file are returned in their order.
C29_Witness ==
    /\ cfg_files = <<Unparsable, ConfigFile(<<Command(<<"b">>), Command(<<"a">>)>>)>>
    /\ cfg_pc = "ok"
    /\ combined_config = <<Command(<<"b">>), Command(<<"a">>)>>

====
